---- MODULE Spec2Model ----
(***************************************************************************)
(* The Umami event reporter (class UmamiLogger behind the Umami facade):   *)
(* its configuration and session identity, the payload builders, the gate  *)
(* checks, the beforeSend hook and the single outbound POST.               *)
(*                                                                         *)
(* JavaScript values are written as follows.  A string is itself.  The     *)
(* values undefined, null, true and false are the tokens Undefined, Null,  *)
(* True and False.  An object is a function whose DOMAIN is the set of its *)
(* own keys, so an absent key is a key outside the DOMAIN.  An optional    *)
(* object (config, sessionData, a data argument) is None or Some(object).  *)
(***************************************************************************)
EXTENDS Integers, Sequences, FiniteSets, TLC

VARIABLES
    config,       \* UmamiLogger.instance.config: None or Some(config object)
    sessionId,    \* UmamiLogger.instance.sessionId: a string or Undefined
    sessionData,  \* UmamiLogger.instance.sessionData: None or Some(object)
    env,          \* the ambient globals window, navigator and document
    inflight,     \* number of axios.post calls awaiting the transport
    last          \* what the most recent step did: the call, the spies' records

vars == <<config, sessionId, sessionData, env, inflight, last>>

\* Calls whose POST is still awaiting the transport, at most.
MaxInFlight == 1

---------------------------------------------------------------------------
\* JavaScript values

Undefined == "<undefined>"
Null == "<null>"
True == "<true>"
False == "<false>"

\* JavaScript truthiness of a primitive (objects and functions are truthy).
Truthy(v) == v \notin {Undefined, Null, False, ""}

None == <<>>
Some(x) == <<x>>

EmptyObject == [k \in {} |-> Undefined]

\* Object spread {...a, ...b}.
Spread(a, b) ==
    [k \in DOMAIN a \cup DOMAIN b |-> IF k \in DOMAIN b THEN b[k] ELSE a[k]]

\* o.k for a property holding a primitive: undefined when the key is absent.
Prop(o, k) == IF k \in DOMAIN o THEN o[k] ELSE Undefined

\* this.config?.k for a property holding a primitive.
ConfigProp(cfg, k) == IF cfg = None THEN Undefined ELSE Prop(cfg[1], k)

Range(s) == {s[i] : i \in DOMAIN s}

---------------------------------------------------------------------------
\* The ambient environment.  kind says which globals exist: a browser page
\* has window, navigator and document; a worker (or a recent Node) has only
\* navigator; a server has none of them.

HasWindow(e) == e.kind = "browser"
HasNavigator(e) == e.kind \in {"browser", "worker"}
HasDocument(e) == e.kind = "browser"

BrowserEnv(host, search, hash, nav, win, ms) ==
    [kind |-> "browser", hostname |-> host, pathname |-> "/test",
     search |-> search, hash |-> hash, language |-> "en-US",
     referrer |-> "https://google.com", width |-> 1024, height |-> 768,
     title |-> "Test Title", navDnt |-> nav, winDnt |-> win, msDnt |-> ms]

WorkerEnv(nav) ==
    [kind |-> "worker", hostname |-> "", pathname |-> "", search |-> "",
     hash |-> "", language |-> "en-US", referrer |-> "", width |-> 0,
     height |-> 0, title |-> "", navDnt |-> nav, winDnt |-> Undefined,
     msDnt |-> Undefined]

ServerEnv ==
    [kind |-> "server", hostname |-> "", pathname |-> "", search |-> "",
     hash |-> "", language |-> "", referrer |-> "", width |-> 0,
     height |-> 0, title |-> "", navDnt |-> Undefined, winDnt |-> Undefined,
     msDnt |-> Undefined]

---------------------------------------------------------------------------
\* Gate checks

\* isDoNotTrackEnabled reads window.doNotTrack after testing only that
\* navigator exists: where navigator exists and window does not, the read of
\* window is a ReferenceError unless navigator.doNotTrack short-circuits it.
DoNotTrackThrows(e) ==
    HasNavigator(e) /\ ~HasWindow(e) /\ ~Truthy(e.navDnt)

\* A variant that accepts an opt-out from any of the three signals.
IsDoNotTrackEnabled_AnySignal(e) ==
    /\ HasNavigator(e)
    /\ \E dnt \in {e.navDnt, e.winDnt, e.msDnt} :
           dnt = "1" \/ dnt = "yes" \/ dnt = True

IsDoNotTrackEnabled(e) ==
    IF ~HasNavigator(e) THEN FALSE
    ELSE LET dnt == IF Truthy(e.navDnt) THEN e.navDnt
                    ELSE IF Truthy(e.winDnt) THEN e.winDnt
                    ELSE e.msDnt
         IN  dnt = "1" \/ dnt = "yes" \/ dnt = True

\* A variant that tests the configured hostName, when there is one, against
\* the domains list.
IsTrackingBlocked_ChecksConfiguredHost(cfg, e) ==
    IF cfg = None THEN "noConfig"
    ELSE LET c == cfg[1]
             currentDomain == IF Truthy(Prop(c, "hostName")) THEN c.hostName
                              ELSE IF HasWindow(e) THEN e.hostname ELSE ""
         IN  IF Truthy(Prop(c, "doNotTrack")) /\ DoNotTrackThrows(e) THEN "throw"
             ELSE IF Truthy(Prop(c, "doNotTrack")) /\ IsDoNotTrackEnabled(e)
                  THEN "doNotTrack"
             ELSE IF /\ "domains" \in DOMAIN c
                     /\ Len(c.domains) > 0
                     /\ currentDomain \notin Range(c.domains)
                  THEN "domain"
             ELSE "open"

\* A variant whose domain check also requires a configured hostName to be on
\* the list.
IsTrackingBlocked_RequiresListedOverride(cfg, e) ==
    IF cfg = None THEN "noConfig"
    ELSE LET c == cfg[1]
             currentDomain == IF HasWindow(e) THEN e.hostname ELSE ""
         IN  IF Truthy(Prop(c, "doNotTrack")) /\ DoNotTrackThrows(e) THEN "throw"
             ELSE IF Truthy(Prop(c, "doNotTrack")) /\ IsDoNotTrackEnabled(e)
                  THEN "doNotTrack"
             ELSE IF /\ "domains" \in DOMAIN c
                     /\ Len(c.domains) > 0
                     /\ \/ currentDomain \notin Range(c.domains)
                        \/ /\ Truthy(Prop(c, "hostName"))
                           /\ c.hostName \notin Range(c.domains)
                  THEN "domain"
             ELSE "open"

\* isTrackingBlocked, with the return it takes: "noConfig", "doNotTrack" and
\* "domain" are its three `return true`, "open" its `return false`, "throw"
\* the exception of isDoNotTrackEnabled.
IsTrackingBlocked(cfg, e) ==
    IF cfg = None THEN "noConfig"
    ELSE LET c == cfg[1]
             currentDomain == IF HasWindow(e) THEN e.hostname ELSE ""
         IN  IF Truthy(Prop(c, "doNotTrack")) /\ DoNotTrackThrows(e) THEN "throw"
             ELSE IF Truthy(Prop(c, "doNotTrack")) /\ IsDoNotTrackEnabled(e)
                  THEN "doNotTrack"
             ELSE IF /\ "domains" \in DOMAIN c
                     /\ Len(c.domains) > 0
                     /\ currentDomain \notin Range(c.domains)
                  THEN "domain"
             ELSE "open"

---------------------------------------------------------------------------
\* Payload builders

\* A variant that appends the fragment before the query string.
BuildUrl_HashFirst(cfg, e, overrideUrl) ==
    IF ~HasWindow(e) THEN (IF Truthy(overrideUrl) THEN overrideUrl ELSE "")
    ELSE LET path == IF Truthy(overrideUrl) THEN overrideUrl ELSE e.pathname
             withHash ==
                 IF ~Truthy(ConfigProp(cfg, "excludeHash")) /\ Truthy(e.hash)
                 THEN path \o e.hash ELSE path
         IN  IF ~Truthy(ConfigProp(cfg, "excludeSearch")) /\ Truthy(e.search)
             THEN withHash \o e.search ELSE withHash

BuildUrl(cfg, e, overrideUrl) ==
    IF ~HasWindow(e) THEN (IF Truthy(overrideUrl) THEN overrideUrl ELSE "")
    ELSE LET path == IF Truthy(overrideUrl) THEN overrideUrl ELSE e.pathname
             withSearch ==
                 IF ~Truthy(ConfigProp(cfg, "excludeSearch")) /\ Truthy(e.search)
                 THEN path \o e.search ELSE path
         IN  IF ~Truthy(ConfigProp(cfg, "excludeHash")) /\ Truthy(e.hash)
             THEN withSearch \o e.hash ELSE withSearch

\* A variant that never attaches the session id.
BuildBasePayload_WithoutId(cfg, sid, e, overrideUrl) ==
    LET payload ==
            [hostname |-> IF Truthy(ConfigProp(cfg, "hostName"))
                          THEN ConfigProp(cfg, "hostName")
                          ELSE IF HasWindow(e) THEN e.hostname ELSE "",
             language |-> IF HasNavigator(e) THEN e.language ELSE "",
             referrer |-> IF HasDocument(e)
                          THEN (IF Truthy(e.referrer) THEN e.referrer ELSE "")
                          ELSE "",
             screen   |-> IF HasWindow(e)
                          THEN ToString(e.width) \o "x" \o ToString(e.height)
                          ELSE "",
             title    |-> IF HasDocument(e) THEN e.title ELSE "",
             url      |-> BuildUrl(cfg, e, overrideUrl),
             website  |-> IF Truthy(ConfigProp(cfg, "websiteId"))
                          THEN ConfigProp(cfg, "websiteId") ELSE ""]
    IN  IF Truthy(ConfigProp(cfg, "tag"))
        THEN Spread(payload, [tag |-> ConfigProp(cfg, "tag")])
        ELSE payload

BuildBasePayload(cfg, sid, e, overrideUrl) ==
    LET payload ==
            [hostname |-> IF Truthy(ConfigProp(cfg, "hostName"))
                          THEN ConfigProp(cfg, "hostName")
                          ELSE IF HasWindow(e) THEN e.hostname ELSE "",
             language |-> IF HasNavigator(e) THEN e.language ELSE "",
             referrer |-> IF HasDocument(e)
                          THEN (IF Truthy(e.referrer) THEN e.referrer ELSE "")
                          ELSE "",
             screen   |-> IF HasWindow(e)
                          THEN ToString(e.width) \o "x" \o ToString(e.height)
                          ELSE "",
             title    |-> IF HasDocument(e) THEN e.title ELSE "",
             url      |-> BuildUrl(cfg, e, overrideUrl),
             website  |-> IF Truthy(ConfigProp(cfg, "websiteId"))
                          THEN ConfigProp(cfg, "websiteId") ELSE ""]
        tagged == IF Truthy(ConfigProp(cfg, "tag"))
                  THEN Spread(payload, [tag |-> ConfigProp(cfg, "tag")])
                  ELSE payload
    IN  IF Truthy(sid) THEN Spread(tagged, [id |-> sid]) ELSE tagged

---------------------------------------------------------------------------
\* The functions the caller supplies.  Each is named by what it does; a
\* result is [kind |-> "throw"], [kind |-> "falsy", v |-> Null, False or
\* Undefined] or [kind |-> "object", v |-> the object returned].

\* config.beforeSend(payload)
ApplyBeforeSend(h, payload) ==
    CASE h = "returnsPayload"   -> [kind |-> "object", v |-> payload]
      [] h = "modifiesUrl"      -> [kind |-> "object",
                                    v |-> Spread(payload, [url |-> "/modified-url"])]
      [] h = "returnsOnlyUrl"   -> [kind |-> "object", v |-> [url |-> "/only-url"]]
      [] h = "allowsNamedEvent" -> IF Prop(payload, "name") = "allowed-event"
                                   THEN [kind |-> "object", v |-> payload]
                                   ELSE [kind |-> "falsy", v |-> Null]
      [] h = "returnsNull"      -> [kind |-> "falsy", v |-> Null]
      [] h = "returnsFalse"     -> [kind |-> "falsy", v |-> False]
      [] h = "returnsUndefined" -> [kind |-> "falsy", v |-> Undefined]
      [] h = "throws"           -> [kind |-> "throw"]

\* The callback given to track(callback), applied to the base payload.
ApplyCallback(cb, props) ==
    CASE cb = "spreadsUrlAndName" ->
             [kind |-> "object",
              v |-> Spread(props, [url |-> "/modified-url", name |-> "custom-event"])]
      [] cb = "returnsId"         -> [kind |-> "object", v |-> [id |-> "cb-id"]]
      [] cb = "returnsUndefined"  -> [kind |-> "falsy", v |-> Undefined]
      [] cb = "throws"            -> [kind |-> "throw"]

---------------------------------------------------------------------------
\* sendData, up to the point where it awaits axios.post.  hook lists the
\* invocations of beforeSend (argument and result), post is the request handed
\* to axios.post, outcome the state of the returned promise.

\* A variant that posts the built payload when beforeSend returns a falsy value.
SendData_IgnoresVeto(cfg, data) ==
    IF ~Truthy(ConfigProp(cfg, "baseUrl"))
    THEN [hook |-> <<>>, post |-> None, outcome |-> "resolved"]
    ELSE LET c == cfg[1]
             apiUrl == c.baseUrl \o "/api/send"
             Post(payload, hook) ==
                 [hook |-> hook,
                  post |-> Some([url |-> apiUrl,
                                 body |-> [payload |-> payload, type |-> data.type]]),
                  outcome |-> "pending"]
         IN  IF "beforeSend" \in DOMAIN c
             THEN LET result == ApplyBeforeSend(c.beforeSend, data.payload)
                      hook == <<[arg |-> data.payload, ret |-> result]>>
                  IN  IF result.kind = "throw"
                      THEN [hook |-> hook, post |-> None, outcome |-> "rejected"]
                      ELSE IF result.kind = "falsy"
                      THEN Post(data.payload, hook)
                      ELSE Post(result.v, hook)
             ELSE Post(data.payload, <<>>)

\* A variant that merges the result of beforeSend over the built payload.
SendData_MergesHookResult(cfg, data) ==
    IF ~Truthy(ConfigProp(cfg, "baseUrl"))
    THEN [hook |-> <<>>, post |-> None, outcome |-> "resolved"]
    ELSE LET c == cfg[1]
             apiUrl == c.baseUrl \o "/api/send"
             Post(payload, hook) ==
                 [hook |-> hook,
                  post |-> Some([url |-> apiUrl,
                                 body |-> [payload |-> payload, type |-> data.type]]),
                  outcome |-> "pending"]
         IN  IF "beforeSend" \in DOMAIN c
             THEN LET result == ApplyBeforeSend(c.beforeSend, data.payload)
                      hook == <<[arg |-> data.payload, ret |-> result]>>
                  IN  IF result.kind = "throw"
                      THEN [hook |-> hook, post |-> None, outcome |-> "rejected"]
                      ELSE IF result.kind = "falsy"
                      THEN [hook |-> hook, post |-> None, outcome |-> "resolved"]
                      ELSE Post(Spread(data.payload, result.v), hook)
             ELSE Post(data.payload, <<>>)

SendData(cfg, data) ==
    IF ~Truthy(ConfigProp(cfg, "baseUrl"))
    THEN [hook |-> <<>>, post |-> None, outcome |-> "resolved"]
    ELSE LET c == cfg[1]
             apiUrl == c.baseUrl \o "/api/send"
             Post(payload, hook) ==
                 [hook |-> hook,
                  post |-> Some([url |-> apiUrl,
                                 body |-> [payload |-> payload, type |-> data.type]]),
                  outcome |-> "pending"]
         IN  IF "beforeSend" \in DOMAIN c
             THEN LET result == ApplyBeforeSend(c.beforeSend, data.payload)
                      hook == <<[arg |-> data.payload, ret |-> result]>>
                  IN  IF result.kind = "throw"
                      THEN [hook |-> hook, post |-> None, outcome |-> "rejected"]
                      ELSE IF result.kind = "falsy"
                      THEN [hook |-> hook, post |-> None, outcome |-> "resolved"]
                      ELSE Post(result.v, hook)
             ELSE Post(data.payload, <<>>)

\* A variant without the catch: a transport error rejects the promise.
AwaitPost_Rethrows(t) ==
    IF t.ok
    THEN [outcome |-> "resolved", value |-> Some(t.response.data), logged |-> FALSE]
    ELSE [outcome |-> "rejected", value |-> None, logged |-> FALSE]

\* sendData, from the point where axios.post settles: the promise resolves
\* with response.data, or the error is logged and it resolves with nothing.
AwaitPost(t) ==
    IF t.ok
    THEN [outcome |-> "resolved", value |-> Some(t.response.data), logged |-> FALSE]
    ELSE [outcome |-> "resolved", value |-> None, logged |-> TRUE]

---------------------------------------------------------------------------
\* The tracking methods.  Each yields what the call did before its await:
\* gate is the return isTrackingBlocked took ("skipped" when the method
\* returned before asking), built the payload handed to sendData, cb the
\* invocations of the track callback, and the identity the call leaves.

Stopped(gate, sid, sdata) ==
    [gate |-> gate, built |-> None, cb |-> <<>>, hook |-> <<>>, post |-> None,
     outcome |-> IF gate = "throw" THEN "rejected" ELSE "resolved",
     sessionId |-> sid, sessionData |-> sdata]

Handed(cfg, payload, cb, sid, sdata) ==
    LET sent == SendData(cfg, [payload |-> payload, type |-> "event"])
    IN  [gate |-> "open", built |-> Some(payload), cb |-> cb, hook |-> sent.hook,
         post |-> sent.post, outcome |-> sent.outcome,
         sessionId |-> sid, sessionData |-> sdata]

\* A variant that sends the base payload, without the session data.
TrackPageViewCall_WithoutData(cfg, sid, sdata, e, overrideUrl) ==
    LET gate == IsTrackingBlocked(cfg, e)
        base == BuildBasePayload(cfg, sid, e, overrideUrl)
    IN  IF gate # "open" THEN Stopped(gate, sid, sdata)
        ELSE Handed(cfg, base, <<>>, sid, sdata)

TrackPageViewCall(cfg, sid, sdata, e, overrideUrl) ==
    LET gate == IsTrackingBlocked(cfg, e)
        base == BuildBasePayload(cfg, sid, e, overrideUrl)
        payload == IF sdata # None THEN Spread(base, [data |-> sdata[1]]) ELSE base
    IN  IF gate # "open" THEN Stopped(gate, sid, sdata)
        ELSE Handed(cfg, payload, <<>>, sid, sdata)

\* A variant in which track() sends the base payload, without session data.
TrackCall_AbsentSendsBase(cfg, sid, sdata, e, a) ==
    LET gate == IsTrackingBlocked(cfg, e)
        base == BuildBasePayload(cfg, sid, e, Undefined)
        named == IF a.data # None
                 THEN Spread(base, [name |-> a.name, data |-> a.data[1]])
                 ELSE Spread(base, [name |-> a.name])
        modifications == ApplyCallback(a.cb, base)
        called == <<[arg |-> base, ret |-> modifications]>>
    IN  IF gate # "open" THEN Stopped(gate, sid, sdata)
        ELSE IF a.kind = "absent"
        THEN Handed(cfg, base, <<>>, sid, sdata)
        ELSE IF a.kind = "name"
        THEN Handed(cfg, named, <<>>, sid, sdata)
        ELSE IF a.kind = "callback"
        THEN IF modifications.kind = "throw"
             THEN [gate |-> "open", built |-> None, cb |-> called, hook |-> <<>>,
                   post |-> None, outcome |-> "rejected",
                   sessionId |-> sid, sessionData |-> sdata]
             ELSE IF modifications.kind = "falsy"
             THEN Handed(cfg, base, called, sid, sdata)
             ELSE Handed(cfg, Spread(base, modifications.v), called, sid, sdata)
        ELSE Handed(cfg, Spread(base, a.payload[1]), <<>>, sid, sdata)

\* A variant in which the fields of the base payload win over those of the
\* object passed to track or returned by its callback.
TrackCall_BaseWins(cfg, sid, sdata, e, a) ==
    LET gate == IsTrackingBlocked(cfg, e)
        base == BuildBasePayload(cfg, sid, e, Undefined)
        named == IF a.data # None
                 THEN Spread(base, [name |-> a.name, data |-> a.data[1]])
                 ELSE Spread(base, [name |-> a.name])
        modifications == ApplyCallback(a.cb, base)
        called == <<[arg |-> base, ret |-> modifications]>>
    IN  IF gate # "open" THEN Stopped(gate, sid, sdata)
        ELSE IF a.kind = "absent"
        THEN TrackPageViewCall(cfg, sid, sdata, e, Undefined)
        ELSE IF a.kind = "name"
        THEN Handed(cfg, named, <<>>, sid, sdata)
        ELSE IF a.kind = "callback"
        THEN IF modifications.kind = "throw"
             THEN [gate |-> "open", built |-> None, cb |-> called, hook |-> <<>>,
                   post |-> None, outcome |-> "rejected",
                   sessionId |-> sid, sessionData |-> sdata]
             ELSE IF modifications.kind = "falsy"
             THEN Handed(cfg, base, called, sid, sdata)
             ELSE Handed(cfg, Spread(modifications.v, base), called, sid, sdata)
        ELSE Handed(cfg, Spread(a.payload[1], base), <<>>, sid, sdata)

\* a is the argument list of track: kind says which overload it selects.
TrackCall(cfg, sid, sdata, e, a) ==
    LET gate == IsTrackingBlocked(cfg, e)
        base == BuildBasePayload(cfg, sid, e, Undefined)
        named == IF a.data # None
                 THEN Spread(base, [name |-> a.name, data |-> a.data[1]])
                 ELSE Spread(base, [name |-> a.name])
        modifications == ApplyCallback(a.cb, base)
        called == <<[arg |-> base, ret |-> modifications]>>
    IN  IF gate # "open" THEN Stopped(gate, sid, sdata)
        ELSE IF a.kind = "absent"
        THEN TrackPageViewCall(cfg, sid, sdata, e, Undefined)
        ELSE IF a.kind = "name"
        THEN Handed(cfg, named, <<>>, sid, sdata)
        ELSE IF a.kind = "callback"
        THEN IF modifications.kind = "throw"
             THEN [gate |-> "open", built |-> None, cb |-> called, hook |-> <<>>,
                   post |-> None, outcome |-> "rejected",
                   sessionId |-> sid, sessionData |-> sdata]
             ELSE IF modifications.kind = "falsy"
             THEN Handed(cfg, base, called, sid, sdata)
             ELSE Handed(cfg, Spread(base, modifications.v), called, sid, sdata)
        ELSE Handed(cfg, Spread(base, a.payload[1]), <<>>, sid, sdata)

\* A variant that attaches no data when none is given, as track does.
LogEventCall_OmitsAbsentData(cfg, sid, sdata, e, eventName, eventData) ==
    LET gate == IsTrackingBlocked(cfg, e)
        base == BuildBasePayload(cfg, sid, e, Undefined)
        payload == IF eventData = None THEN Spread(base, [name |-> eventName])
                   ELSE Spread(base, [name |-> eventName, data |-> eventData[1]])
    IN  IF cfg = None \/ ~Truthy(eventName) THEN Stopped("skipped", sid, sdata)
        ELSE IF gate # "open" THEN Stopped(gate, sid, sdata)
        ELSE Handed(cfg, payload, <<>>, sid, sdata)

\* A variant that sends an event without a name, as track does.
LogEventCall_SendsUnnamed(cfg, sid, sdata, e, eventName, eventData) ==
    LET gate == IsTrackingBlocked(cfg, e)
        data == IF eventData = None THEN EmptyObject ELSE eventData[1]
        payload == Spread(BuildBasePayload(cfg, sid, e, Undefined),
                          [name |-> eventName, data |-> data])
    IN  IF cfg = None THEN Stopped("skipped", sid, sdata)
        ELSE IF gate # "open" THEN Stopped(gate, sid, sdata)
        ELSE Handed(cfg, payload, <<>>, sid, sdata)

LogEventCall(cfg, sid, sdata, e, eventName, eventData) ==
    LET gate == IsTrackingBlocked(cfg, e)
        data == IF eventData = None THEN EmptyObject ELSE eventData[1]
        payload == Spread(BuildBasePayload(cfg, sid, e, Undefined),
                          [name |-> eventName, data |-> data])
    IN  IF cfg = None \/ ~Truthy(eventName) THEN Stopped("skipped", sid, sdata)
        ELSE IF gate # "open" THEN Stopped(gate, sid, sdata)
        ELSE Handed(cfg, payload, <<>>, sid, sdata)

\* A variant in which the fixed revenue and currency win over the additional
\* data.
TrackRevenueCall_FixedWins(cfg, sid, sdata, e, eventName, revenue, currency, additionalData) ==
    LET gate == IsTrackingBlocked(cfg, e)
        data == Spread(IF additionalData = None THEN EmptyObject
                       ELSE additionalData[1],
                       [revenue |-> revenue, currency |-> currency])
        payload == Spread(BuildBasePayload(cfg, sid, e, Undefined),
                          [name |-> eventName, data |-> data])
    IN  IF cfg = None \/ ~Truthy(eventName) THEN Stopped("skipped", sid, sdata)
        ELSE IF gate # "open" THEN Stopped(gate, sid, sdata)
        ELSE Handed(cfg, payload, <<>>, sid, sdata)

TrackRevenueCall(cfg, sid, sdata, e, eventName, revenue, currency, additionalData) ==
    LET gate == IsTrackingBlocked(cfg, e)
        data == Spread([revenue |-> revenue, currency |-> currency],
                       IF additionalData = None THEN EmptyObject
                       ELSE additionalData[1])
        payload == Spread(BuildBasePayload(cfg, sid, e, Undefined),
                          [name |-> eventName, data |-> data])
    IN  IF cfg = None \/ ~Truthy(eventName) THEN Stopped("skipped", sid, sdata)
        ELSE IF gate # "open" THEN Stopped(gate, sid, sdata)
        ELSE Handed(cfg, payload, <<>>, sid, sdata)

\* A variant that updates the identity before it asks whether tracking is
\* blocked.
IdentifyCall_UpdatesWhenBlocked(cfg, sid, sdata, e, a) ==
    LET gate == IsTrackingBlocked(cfg, e)
        newId == IF a.id # Undefined THEN a.id ELSE sid
        newData == IF a.id # Undefined
                   THEN (IF a.data # None THEN a.data ELSE sdata)
                   ELSE IF a.idData # None THEN a.idData ELSE sdata
        base == BuildBasePayload(cfg, newId, e, Undefined)
        payload == IF newData # None THEN Spread(base, [data |-> newData[1]])
                   ELSE base
    IN  IF cfg = None THEN Stopped("skipped", sid, sdata)
        ELSE IF gate # "open" THEN Stopped(gate, newId, newData)
        ELSE Handed(cfg, payload, <<>>, newId, newData)

\* A variant that keeps the new identity only when the POST was dispatched.
IdentifyCall_UpdatesOnlyWhenSent(cfg, sid, sdata, e, a) ==
    LET gate == IsTrackingBlocked(cfg, e)
        newId == IF a.id # Undefined THEN a.id ELSE sid
        newData == IF a.id # Undefined
                   THEN (IF a.data # None THEN a.data ELSE sdata)
                   ELSE IF a.idData # None THEN a.idData ELSE sdata
        base == BuildBasePayload(cfg, newId, e, Undefined)
        payload == IF newData # None THEN Spread(base, [data |-> newData[1]])
                   ELSE base
        handed == Handed(cfg, payload, <<>>, newId, newData)
    IN  IF cfg = None THEN Stopped("skipped", sid, sdata)
        ELSE IF gate # "open" THEN Stopped(gate, sid, sdata)
        ELSE IF handed.post = None
        THEN [handed EXCEPT !.sessionId = sid, !.sessionData = sdata]
        ELSE handed

\* A variant that merges new session data into the old.
IdentifyCall_MergesData(cfg, sid, sdata, e, a) ==
    LET gate == IsTrackingBlocked(cfg, e)
        Merged(d) == IF sdata # None THEN Some(Spread(sdata[1], d[1])) ELSE d
        newId == IF a.id # Undefined THEN a.id ELSE sid
        newData == IF a.id # Undefined
                   THEN (IF a.data # None THEN Merged(a.data) ELSE sdata)
                   ELSE IF a.idData # None THEN Merged(a.idData) ELSE sdata
        base == BuildBasePayload(cfg, newId, e, Undefined)
        payload == IF newData # None THEN Spread(base, [data |-> newData[1]])
                   ELSE base
    IN  IF cfg = None THEN Stopped("skipped", sid, sdata)
        ELSE IF gate # "open" THEN Stopped(gate, sid, sdata)
        ELSE Handed(cfg, payload, <<>>, newId, newData)

\* A variant that builds its payload before it updates the identity.
IdentifyCall_BuildsBeforeUpdate(cfg, sid, sdata, e, a) ==
    LET gate == IsTrackingBlocked(cfg, e)
        newId == IF a.id # Undefined THEN a.id ELSE sid
        newData == IF a.id # Undefined
                   THEN (IF a.data # None THEN a.data ELSE sdata)
                   ELSE IF a.idData # None THEN a.idData ELSE sdata
        base == BuildBasePayload(cfg, sid, e, Undefined)
        payload == IF sdata # None THEN Spread(base, [data |-> sdata[1]])
                   ELSE base
    IN  IF cfg = None THEN Stopped("skipped", sid, sdata)
        ELSE IF gate # "open" THEN Stopped(gate, sid, sdata)
        ELSE Handed(cfg, payload, <<>>, newId, newData)

\* a is the argument list of identify: a.id is the first argument when it is
\* a string (else Undefined), a.idData the first argument when it is an
\* object (else None), a.data the second argument.
IdentifyCall(cfg, sid, sdata, e, a) ==
    LET gate == IsTrackingBlocked(cfg, e)
        newId == IF a.id # Undefined THEN a.id ELSE sid
        newData == IF a.id # Undefined
                   THEN (IF a.data # None THEN a.data ELSE sdata)
                   ELSE IF a.idData # None THEN a.idData ELSE sdata
        base == BuildBasePayload(cfg, newId, e, Undefined)
        payload == IF newData # None THEN Spread(base, [data |-> newData[1]])
                   ELSE base
    IN  IF cfg = None THEN Stopped("skipped", sid, sdata)
        ELSE IF gate # "open" THEN Stopped(gate, sid, sdata)
        ELSE Handed(cfg, payload, <<>>, newId, newData)

---------------------------------------------------------------------------
\* Read accessors

GetConfig == config
GetSessionId == sessionId
GetSessionData == sessionData

---------------------------------------------------------------------------
\* Steps.  Every step records itself in last.

Pre == [sessionId |-> sessionId, sessionData |-> sessionData]

\* pre is the session identity when the step began, e the ambient environment
\* the step ran in.  (No tracking call writes config, so a call's record is
\* read against the config of the state that holds it.)
Record(op, args, pre, e, r, settled) ==
    [op |-> op, args |-> args, pre |-> pre, env |-> e,
     gate |-> r.gate, built |-> r.built,
     cb |-> r.cb, hook |-> r.hook, post |-> r.post, outcome |-> r.outcome,
     transport |-> settled.transport, value |-> settled.value,
     logged |-> settled.logged]

NotSettled == [transport |-> "none", value |-> None, logged |-> FALSE]

\* A step that is no tracking call: nothing gated, built or sent.
Plain == [gate |-> "skipped", built |-> None, cb |-> <<>>, hook |-> <<>>,
          post |-> None, outcome |-> "returned"]

\* A call of a tracking method, up to its await.
Call(op, args, r) ==
    /\ r.post # None => inflight < MaxInFlight
    /\ inflight' = IF r.post # None THEN inflight + 1 ELSE inflight
    /\ sessionId' = r.sessionId
    /\ sessionData' = r.sessionData
    /\ last' = Record(op, args, Pre, env, r, NotSettled)
    /\ UNCHANGED <<config, env>>

TrackPageView(overrideUrl) ==
    Call("trackPageView", [overrideUrl |-> overrideUrl],
         TrackPageViewCall(config, sessionId, sessionData, env, overrideUrl))

Track(a) ==
    Call("track", a, TrackCall(config, sessionId, sessionData, env, a))

LogEvent(a) ==
    Call("logEvent", a,
         LogEventCall(config, sessionId, sessionData, env, a.name, a.data))

TrackRevenue(a) ==
    Call("trackRevenue", a,
         TrackRevenueCall(config, sessionId, sessionData, env,
                          a.name, a.revenue, a.currency, a.data))

Identify(a) ==
    Call("identify", a, IdentifyCall(config, sessionId, sessionData, env, a))

\* A variant that starts the new configuration without identity.
Initialize_ClearsIdentity(c) ==
    /\ config' = Some(c)
    /\ sessionId' = Undefined
    /\ sessionData' = None
    /\ last' = Record("initialize", [config |-> c], Pre, env, Plain, NotSettled)
    /\ UNCHANGED <<env, inflight>>

\* A variant that merges the new configuration into the old.
Initialize_MergesConfig(c) ==
    /\ config' = IF config = None THEN Some(c) ELSE Some(Spread(config[1], c))
    /\ last' = Record("initialize", [config |-> c], Pre, env, Plain, NotSettled)
    /\ UNCHANGED <<sessionId, sessionData, env, inflight>>

Initialize(c) ==
    /\ config' = Some(c)
    /\ last' = Record("initialize", [config |-> c], Pre, env, Plain, NotSettled)
    /\ UNCHANGED <<sessionId, sessionData, env, inflight>>

\* A variant that discards the configuration and keeps the identity.
ResetInstance_KeepsIdentity ==
    /\ config' = None
    /\ last' = Record("resetInstance", EmptyObject, Pre, env, Plain, NotSettled)
    /\ UNCHANGED <<sessionId, sessionData, env, inflight>>

\* A variant that takes the requests in flight with it.
ResetInstance_DropsInFlight ==
    /\ config' = None
    /\ sessionId' = Undefined
    /\ sessionData' = None
    /\ inflight' = 0
    /\ last' = Record("resetInstance", EmptyObject, Pre, env, Plain, NotSettled)
    /\ UNCHANGED env

\* Umami.reset(): the singleton is replaced by a new UmamiLogger.
ResetInstance ==
    /\ config' = None
    /\ sessionId' = Undefined
    /\ sessionData' = None
    /\ last' = Record("resetInstance", EmptyObject, Pre, env, Plain, NotSettled)
    /\ UNCHANGED <<env, inflight>>

ClearIdentity ==
    /\ sessionId' = Undefined
    /\ sessionData' = None
    /\ last' = Record("clearIdentity", EmptyObject, Pre, env, Plain, NotSettled)
    /\ UNCHANGED <<config, env, inflight>>

\* A variant that makes the tag the whole configuration.
SetTag_ReplacesConfig(tag) ==
    /\ config' = Some([tag |-> tag])
    /\ last' = Record("setTag", [tag |-> tag], Pre, env, Plain, NotSettled)
    /\ UNCHANGED <<sessionId, sessionData, env, inflight>>

SetTag(tag) ==
    /\ config' = IF config # None THEN Some(Spread(config[1], [tag |-> tag]))
                 ELSE config
    /\ last' = Record("setTag", [tag |-> tag], Pre, env, Plain, NotSettled)
    /\ UNCHANGED <<sessionId, sessionData, env, inflight>>

ClearTag ==
    /\ config' = IF config # None THEN Some(Spread(config[1], [tag |-> Undefined]))
                 ELSE config
    /\ last' = Record("clearTag", EmptyObject, Pre, env, Plain, NotSettled)
    /\ UNCHANGED <<sessionId, sessionData, env, inflight>>

\* A variant that sends a failed POST again: the request stays in flight.
Settle_RetriesFailure(t) ==
    /\ inflight > 0
    /\ inflight' = IF t.ok THEN inflight - 1 ELSE inflight
    /\ last' = LET s == AwaitPost(t)
               IN  Record("settle", [transport |-> t], Pre, env,
                          [Plain EXCEPT !.outcome = s.outcome],
                          [transport |-> IF t.ok THEN "ok" ELSE "error",
                           value |-> s.value, logged |-> s.logged])
    /\ UNCHANGED <<config, sessionId, sessionData, env>>

\* The transport settles one awaited axios.post: t.ok with t.response, or an
\* error.  The awaiting sendData runs to its end.
Settle(t) ==
    /\ inflight > 0
    /\ inflight' = inflight - 1
    /\ last' = LET s == AwaitPost(t)
               IN  Record("settle", [transport |-> t], Pre, env,
                          [Plain EXCEPT !.outcome = s.outcome],
                          [transport |-> IF t.ok THEN "ok" ELSE "error",
                           value |-> s.value, logged |-> s.logged])
    /\ UNCHANGED <<config, sessionId, sessionData, env>>

\* The page changes under the reporter: location and the do-not-track
\* signals are read afresh by every call.
Navigate(e) ==
    /\ e.kind = env.kind
    /\ e # env
    /\ env' = e
    /\ last' = Record("navigate", EmptyObject, Pre, e, Plain, NotSettled)
    /\ UNCHANGED <<config, sessionId, sessionData, inflight>>

---------------------------------------------------------------------------
\* Argument lists

TrackAbsent ==
    [kind |-> "absent", name |-> Undefined, data |-> None, cb |-> "none",
     payload |-> None]
TrackName(name, data) ==
    [kind |-> "name", name |-> name, data |-> data, cb |-> "none", payload |-> None]
TrackCallback(cb) ==
    [kind |-> "callback", name |-> Undefined, data |-> None, cb |-> cb,
     payload |-> None]
TrackPayload(o) ==
    [kind |-> "object", name |-> Undefined, data |-> None, cb |-> "none",
     payload |-> Some(o)]

EventArgs(name, data) == [name |-> name, data |-> data]
RevenueArgs(name, revenue, currency, data) ==
    [name |-> name, revenue |-> revenue, currency |-> currency, data |-> data]
IdentifyArgs(id, idData, data) == [id |-> id, idData |-> idData, data |-> data]

Succeeds(data) == [ok |-> TRUE, response |-> [data |-> data, status |-> 200]]
Fails == [ok |-> FALSE, response |-> [data |-> EmptyObject, status |-> 0]]

---------------------------------------------------------------------------
\* The inputs the behaviours draw from.

BaseConfig == [baseUrl |-> "https://umami.is", websiteId |-> "test-id"]

BeforeSends ==
    {"returnsPayload", "modifiesUrl", "returnsOnlyUrl", "allowsNamedEvent",
     "returnsNull", "returnsFalse", "returnsUndefined", "throws"}

John == [name |-> "John", email |-> "john@example.com"]
Premium == [plan |-> "premium"]

Page == BrowserEnv("localhost", "?utm_source=google", "#section1",
                   Null, Undefined, Undefined)

\* Sending: every beforeSend, every overload of track, every shape of
\* identify, on a page that is sometimes opted out of tracking.
SendInputs ==
    [configs |->
         {BaseConfig,
          [websiteId |-> "test-id"],
          [baseUrl |-> "https://umami.is"],
          Spread(BaseConfig, [baseUrl |-> ""]),
          Spread(BaseConfig, [tag |-> "campaign"]),
          Spread(BaseConfig, [hostName |-> "example.com",
                              excludeSearch |-> True, excludeHash |-> True]),
          Spread(BaseConfig, [doNotTrack |-> True, beforeSend |-> "returnsPayload"]),
          Spread(BaseConfig, [domains |-> <<"example.com", "other.com">>])}
         \cup {Spread(BaseConfig, [beforeSend |-> h]) : h \in BeforeSends},
     envs |-> {Page,
               BrowserEnv("localhost", "", "", "1", Undefined, Undefined)},
     overrideUrls |-> {Undefined, "/custom-page"},
     tracks |-> {TrackAbsent,
                 TrackName("signup-button", None),
                 TrackName("allowed-event", Some(Premium)),
                 TrackCallback("spreadsUrlAndName"),
                 TrackCallback("returnsId"),
                 TrackCallback("returnsUndefined"),
                 TrackCallback("throws"),
                 TrackPayload([url |-> "/custom-page", title |-> "Custom Title"]),
                 TrackPayload([id |-> "payload-id"]),
                 TrackPayload([tag |-> "custom-tag"])},
     events |-> {EventArgs("click", Some([buttonId |-> "test-button"])),
                 EventArgs("allowed-event", None),
                 EventArgs("", Some([data |-> "test"]))},
     revenues |-> {RevenueArgs("purchase", 10, "USD", None),
                   RevenueArgs("purchase", 10, "USD", Some([currency |-> "override"])),
                   RevenueArgs("purchase", 99, "EUR",
                               Some([productId |-> "prod-123", revenue |-> 0])),
                   RevenueArgs("", 10, "USD", None)},
     identifies |-> {IdentifyArgs("user-12345", None, None),
                     IdentifyArgs("user-12345", None, Some(John)),
                     IdentifyArgs("user-12345", None, Some(EmptyObject)),
                     IdentifyArgs("", None, None),
                     IdentifyArgs(Undefined, Some(Premium), None),
                     IdentifyArgs(Undefined, None, None)},
     tags |-> {"summer", ""},
     transports |-> {Succeeds([sessionId |-> "session-123", visitId |-> "visit-456"]),
                     Succeeds(EmptyObject),
                     Fails}]

\* Gating: every combination of the doNotTrack and domains options, on
\* pages of two hosts with every combination of the three do-not-track
\* signals, in a worker and on a server.
GateInputs ==
    [configs |->
         {Spread(Spread(BaseConfig, dnt), domains) :
              dnt \in {EmptyObject, [doNotTrack |-> True], [doNotTrack |-> False]},
              domains \in {EmptyObject,
                           [domains |-> <<>>],
                           [domains |-> <<"localhost", "example.com">>],
                           [domains |-> <<"example.com", "other.com">>]}}
         \cup {Spread(BaseConfig, [beforeSend |-> "returnsNull"]),
               Spread(BaseConfig, [baseUrl |-> ""]),
               Spread(BaseConfig, [hostName |-> "example.com",
                                   domains |-> <<"example.com", "other.com">>]),
               Spread(BaseConfig, [hostName |-> "custom.org",
                                   domains |-> <<"localhost", "example.com">>])},
     envs |->
         {BrowserEnv("localhost", "", "", nav, win, ms) :
              nav \in {Null, "1", "0"},
              win \in {Undefined, "yes", "0"},
              ms \in {"", True, "1"}}
         \cup {BrowserEnv("other.org", "", "", nav, Undefined, Undefined) :
                   nav \in {Null, "1"}}
         \cup {WorkerEnv(Undefined), WorkerEnv("1"), ServerEnv},
     overrideUrls |-> {Undefined},
     tracks |-> {TrackAbsent, TrackName("signup-button", None)},
     events |-> {EventArgs("click", None), EventArgs("", None)},
     revenues |-> {RevenueArgs("purchase", 10, "USD", None)},
     identifies |-> {IdentifyArgs("user-12345", None, Some(John))},
     tags |-> {"summer"},
     transports |-> {Succeeds(EmptyObject), Fails}]

\* Urls: every combination of the excludeSearch and excludeHash options, on
\* pages with and without a query string and a fragment and on a server,
\* with no override, an empty one and a path.
UrlInputs ==
    [configs |->
         {Spread(Spread(BaseConfig, search), hash) :
              search \in {EmptyObject, [excludeSearch |-> True],
                          [excludeSearch |-> False]},
              hash \in {EmptyObject, [excludeHash |-> True]}},
     envs |->
         {BrowserEnv("localhost", search, hash, Null, Undefined, Undefined) :
              search \in {"", "?utm_source=google"},
              hash \in {"", "#section1"}}
         \cup {ServerEnv},
     overrideUrls |-> {Undefined, "", "/custom-page"},
     tracks |-> {TrackAbsent,
                 TrackName("signup-button", None),
                 TrackCallback("spreadsUrlAndName"),
                 TrackCallback("returnsId"),
                 TrackPayload([url |-> "/custom-page", title |-> "Custom Title"]),
                 TrackPayload([id |-> "payload-id"])},
     events |-> {EventArgs("click", None)},
     revenues |-> {RevenueArgs("purchase", 10, "USD", None)},
     identifies |-> {IdentifyArgs(Undefined, Some(Premium), None)},
     tags |-> {"summer"},
     transports |-> {Succeeds(EmptyObject)}]

---------------------------------------------------------------------------
\* The specification over a set of inputs.

InitOver(U) ==
    /\ config = None
    /\ sessionId = Undefined
    /\ sessionData = None
    /\ env \in U.envs
    /\ inflight = 0
    /\ last = Record("construct", EmptyObject,
                     [sessionId |-> Undefined, sessionData |-> None],
                     env, Plain, NotSettled)

DoInitialize(U) == \E c \in U.configs : Initialize(c)
DoTrackPageView(U) == \E u \in U.overrideUrls : TrackPageView(u)
DoTrack(U) == \E a \in U.tracks : Track(a)
DoLogEvent(U) == \E a \in U.events : LogEvent(a)
DoTrackRevenue(U) == \E a \in U.revenues : TrackRevenue(a)
DoIdentify(U) == \E a \in U.identifies : Identify(a)
DoSetTag(U) == \E t \in U.tags : SetTag(t)
DoSettle(U) == \E t \in U.transports : Settle(t)
DoNavigate(U) == \E e \in U.envs : Navigate(e)

NextOver(U) ==
    \/ DoInitialize(U)
    \/ ResetInstance
    \/ DoTrackPageView(U)
    \/ DoTrack(U)
    \/ DoLogEvent(U)
    \/ DoTrackRevenue(U)
    \/ DoIdentify(U)
    \/ ClearIdentity
    \/ DoSetTag(U)
    \/ ClearTag
    \/ DoSettle(U)
    \/ DoNavigate(U)

Init == InitOver(SendInputs)
Next == NextOver(SendInputs)
Spec == Init /\ [][Next]_vars

InitGate == InitOver(GateInputs)
NextGate == NextOver(GateInputs)
SpecGate == InitGate /\ [][NextGate]_vars

InitUrl == InitOver(UrlInputs)
NextUrl == NextOver(UrlInputs)
SpecUrl == InitUrl /\ [][NextUrl]_vars

---------------------------------------------------------------------------
\* What the properties below read from a record, stated on the raw state.

TrackingOps == {"trackPageView", "track", "logEvent", "trackRevenue", "identify"}

\* The first non-empty of navigator.doNotTrack, window.doNotTrack and
\* navigator.msDoNotTrack is "1", "yes" or true.
SignalsOptOut(e) ==
    LET signals == <<e.navDnt, e.winDnt, e.msDnt>>
        nonEmpty == {i \in 1..3 : signals[i] \notin {Undefined, Null, False, ""}}
    IN  /\ nonEmpty # {}
        /\ LET first == CHOOSE i \in nonEmpty : \A j \in nonEmpty : i <= j
           IN  signals[first] \in {"1", "yes", True}

HonoursDoNotTrack(c) == "doNotTrack" \in DOMAIN c /\ c.doNotTrack = True

\* The domains list of c is non-empty and does not hold the ambient hostname.
DomainExcluded(c, e) ==
    /\ "domains" \in DOMAIN c
    /\ c.domains # <<>>
    /\ \A i \in DOMAIN c.domains : c.domains[i] # e.hostname

HasBaseUrl(c) == "baseUrl" \in DOMAIN c /\ c.baseUrl # ""

---------------------------------------------------------------------------
\* C1: a tracking call issues a POST only if a configuration with a non-empty
\* baseUrl is set, neither the do-not-track check nor the domain check blocks
\* in the environment of the call, and beforeSend, when configured, was
\* invoked for the call and returned a truthy payload.
C1_PostOnlyWhenAllowed ==
    (last.op \in TrackingOps /\ last.post # None) =>
        /\ config # None
        /\ HasBaseUrl(config[1])
        /\ ~(HonoursDoNotTrack(config[1]) /\ SignalsOptOut(last.env))
        /\ ~DomainExcluded(config[1], last.env)
        /\ "beforeSend" \in DOMAIN config[1] =>
               /\ Len(last.hook) = 1
               /\ last.hook[1].ret.kind = "object"

\* A POST goes out under a configuration that honours do-not-track and has a
\* beforeSend.
C1_Witness ==
    /\ last.op \in TrackingOps
    /\ last.post # None
    /\ config # None
    /\ HonoursDoNotTrack(config[1])
    /\ "beforeSend" \in DOMAIN config[1]

\* C2: no tracking method rejects: whatever the configuration, the arguments,
\* the transport, beforeSend or a callback passed to track do, the returned
\* promise never rejects.
C2_NeverRejects ==
    last.outcome # "rejected"

\* C3: a call whose POST was handed to the transport resolves with the
\* response body when the POST succeeds, and resolves with no value, the error
\* logged, when it fails; it never rejects.
C3_SettleResolves ==
    /\ (last.op \in TrackingOps /\ last.post # None) => last.outcome = "pending"
    /\ last.op = "settle" =>
           /\ last.outcome = "resolved"
           /\ last.args.transport.ok =>
                  /\ last.value = Some(last.args.transport.response.data)
                  /\ ~last.logged
           /\ ~last.args.transport.ok =>
                  /\ last.value = None
                  /\ last.logged

\* A POST has failed and its call has settled.
C3_Witness ==
    /\ last.op = "settle"
    /\ ~last.args.transport.ok

\* C4: in the initial state and after resetInstance the accessors return
\* unset; while no configuration is set the identity stays unset and a
\* tracking call issues no POST, invokes nothing and changes nothing.
C4_UnconfiguredIsInert ==
    /\ last.op \in {"construct", "resetInstance"} =>
           /\ GetConfig = None
           /\ GetSessionId = Undefined
           /\ GetSessionData = None
    /\ config = None =>
           /\ sessionId = Undefined
           /\ sessionData = None
    /\ (config = None /\ last.op \in TrackingOps) =>
           /\ last.post = None
           /\ last.built = None
           /\ last.hook = <<>>
           /\ last.cb = <<>>
           /\ last.outcome = "resolved"
           /\ sessionId = last.pre.sessionId
           /\ sessionData = last.pre.sessionData

\* identify is called on a reporter that was configured, sent a POST still
\* in flight, and was reset.
C4_Witness ==
    /\ config = None
    /\ last.op = "identify"
    /\ last.args.id = "user-12345"
    /\ inflight = 1

\* C5: while the domains list is non-empty and does not hold the ambient
\* hostname no tracking call issues a POST; when the list is absent, empty or
\* holds the ambient hostname, the domain check stops no call.
C5_DomainGate ==
    (last.op \in TrackingOps /\ config # None) =>
        /\ DomainExcluded(config[1], last.env) => last.post = None
        /\ ~DomainExcluded(config[1], last.env) => last.gate # "domain"

\* A call is stopped by the domain check although the configured hostName is
\* on the list.
C5_Witness ==
    /\ last.op \in TrackingOps
    /\ last.gate = "domain"
    /\ config # None
    /\ "hostName" \in DOMAIN config[1]
    /\ \E i \in DOMAIN config[1].domains : config[1].domains[i] = config[1].hostName

\* C6: a call that asks the block check under a configuration is stopped by
\* do-not-track exactly when config.doNotTrack is true and the first
\* non-empty of the three ambient signals is "1", "yes" or true.
C6_DoNotTrackGate ==
    (last.op \in TrackingOps /\ config # None /\ last.gate # "skipped") =>
        (last.gate = "doNotTrack" <=>
            (HonoursDoNotTrack(config[1]) /\ SignalsOptOut(last.env)))

\* A call is stopped by the third signal, the first two being empty.
C6_Witness ==
    /\ last.op \in TrackingOps
    /\ last.gate = "doNotTrack"
    /\ last.env.navDnt = Null
    /\ last.env.winDnt = Undefined
    /\ last.env.msDnt = True

\* The track callback of the call threw.
CallbackThrew == last.cb # <<>> /\ last.cb[1].ret.kind = "throw"

\* With beforeSend configured: it is invoked once, with the built payload, by
\* every call that `reaches` it and by no other; a POST follows exactly when
\* its result is truthy, and carries exactly that result.
HookDiscipline(reaches) ==
    (last.op \in TrackingOps /\ config # None /\ "beforeSend" \in DOMAIN config[1]) =>
        /\ reaches =>
               /\ Len(last.hook) = 1
               /\ last.built # None
               /\ last.hook[1].arg = last.built[1]
        /\ ~reaches => last.hook = <<>>
        /\ last.post # None <=>
               (Len(last.hook) = 1 /\ last.hook[1].ret.kind = "object")
        /\ last.post # None => last.post[1].body.payload = last.hook[1].ret.v

\* C7, as claimed: beforeSend is invoked once, with the built payload, by
\* every call that passes the configuration, empty-name and block checks.
C7_HookOncePerPassingCall ==
    HookDiscipline(HasBaseUrl(config[1]) /\ last.gate = "open")

\* C7 holds of every call that builds its payload: the only call that passes
\* the checks without reaching beforeSend is a track whose callback throws,
\* which rejects before the payload is built.
C7_HookOncePerBuiltPayload ==
    HookDiscipline(HasBaseUrl(config[1]) /\ last.gate = "open" /\ ~CallbackThrew)

\* beforeSend returned an object holding only a url, and exactly that was
\* posted.
C7_Witness ==
    /\ last.op \in TrackingOps
    /\ last.post # None
    /\ Len(last.hook) = 1
    /\ DOMAIN last.post[1].body.payload = {"url"}
    /\ DOMAIN last.built[1] # {"url"}

\* The session id changes only by identify with a string first argument
\* (which sets it to that string when the call passes its checks), by
\* clearIdentity and by resetInstance; clearIdentity unsets id and data.
IdentityLifecycle ==
    /\ last.op \notin {"identify", "clearIdentity", "resetInstance"} =>
           sessionId = last.pre.sessionId
    /\ (last.op = "identify" /\ last.args.id = Undefined) =>
           sessionId = last.pre.sessionId
    /\ (last.op = "identify" /\ last.args.id # Undefined /\ last.gate = "open") =>
           sessionId = last.args.id
    /\ last.op = "clearIdentity" =>
           /\ GetSessionId = Undefined
           /\ GetSessionData = None

\* The id the payload built by the call carries: None when it has none.
BuiltId == IF "id" \in DOMAIN last.built[1] THEN Some(last.built[1].id) ELSE None

\* C8, as claimed: once identify has set a string id, every payload a
\* tracking call builds carries that id until identify replaces it or
\* clearIdentity or resetInstance clears it, and none carries an id afterwards.
C8_EveryPayloadCarriesId ==
    /\ IdentityLifecycle
    /\ (last.op \in TrackingOps /\ last.built # None) =>
           BuiltId = IF sessionId # Undefined THEN Some(sessionId) ELSE None

\* The id given to the call itself: by the object passed to track, or by the
\* object its callback returned.
SuppliedId ==
    IF last.op = "track" /\ last.args.kind = "object"
          /\ "id" \in DOMAIN last.args.payload[1]
    THEN Some(last.args.payload[1].id)
    ELSE IF last.op = "track" /\ last.args.kind = "callback"
          /\ last.cb[1].ret.kind = "object" /\ "id" \in DOMAIN last.cb[1].ret.v
    THEN Some(last.cb[1].ret.v.id)
    ELSE None

\* C8, amended: the id must be non-empty (identify("") is stored, and
\* payloads then carry no id), and an id in the object passed to track, or
\* in the object its callback returns, takes the place of the session id in
\* that payload; the base payload given to the callback carries the session id.
C8_PayloadCarriesNonEmptyId ==
    /\ IdentityLifecycle
    /\ (last.op \in TrackingOps /\ last.built # None) =>
           LET carried == IF sessionId \notin {Undefined, ""}
                          THEN Some(sessionId) ELSE None
           IN  /\ BuiltId = IF SuppliedId # None THEN SuppliedId ELSE carried
               /\ last.cb # <<>> =>
                      carried = IF "id" \in DOMAIN last.cb[1].arg
                                THEN Some(last.cb[1].arg.id) ELSE None

\* An event logged after an earlier identify carries the id.
C8_Witness ==
    /\ last.op = "logEvent"
    /\ last.built # None
    /\ last.pre.sessionId = "user-12345"
    /\ BuiltId = Some("user-12345")

\* C9: an identify call that passes its checks resolves its arguments by
\* shape: a string first argument becomes the session id, a second argument
\* then replaces the session data and an omitted one leaves it; an object
\* first argument replaces the session data and leaves the id.
C9_IdentifyByShape ==
    (last.op = "identify" /\ last.gate = "open") =>
        /\ last.args.id # Undefined =>
               /\ sessionId = last.args.id
               /\ last.args.data # None => sessionData = last.args.data
               /\ last.args.data = None => sessionData = last.pre.sessionData
        /\ (last.args.id = Undefined /\ last.args.idData # None) =>
               /\ sessionData = last.args.idData
               /\ sessionId = last.pre.sessionId

\* A second argument {} replaced session data that had keys.
C9_Witness ==
    /\ last.op = "identify"
    /\ last.gate = "open"
    /\ last.pre.sessionData = Some(John)
    /\ last.args.data = Some(EmptyObject)
    /\ sessionData = Some(EmptyObject)

\* The payload identify built carries the current identity.
IdentifyBuildsCurrentIdentity(HasId(_)) ==
    /\ last.built # None
    /\ HasId(sessionId) => BuiltId = Some(sessionId)
    /\ ~HasId(sessionId) => BuiltId = None
    /\ sessionData # None =>
           /\ "data" \in DOMAIN last.built[1]
           /\ last.built[1].data = sessionData[1]
    /\ sessionData = None => "data" \notin DOMAIN last.built[1]

IsNonEmpty(id) == id \notin {Undefined, ""}

\* C10, as claimed: every identify call on a reporter configured with a
\* non-empty baseUrl and not blocked builds a payload carrying the current
\* session id and data and issues a POST.
C10_IdentifyAlwaysPosts ==
    (last.op = "identify" /\ config # None /\ HasBaseUrl(config[1])
        /\ last.gate = "open") =>
        /\ IdentifyBuildsCurrentIdentity(IsNonEmpty)
        /\ last.post # None

\* C10, amended: the payload carries the session id when it is non-empty,
\* and it is handed to sendData, which POSTs it only if baseUrl is non-empty
\* and beforeSend is absent (the payload is then posted as built) or returns
\* a truthy payload (which is posted in its place).
C10_IdentifyPostsUnlessCancelled ==
    (last.op = "identify" /\ config # None /\ last.gate = "open") =>
        /\ IdentifyBuildsCurrentIdentity(IsNonEmpty)
        /\ last.post # None <=>
               /\ HasBaseUrl(config[1])
               /\ "beforeSend" \in DOMAIN config[1] =>
                      (Len(last.hook) = 1 /\ last.hook[1].ret.kind = "object")
        /\ (last.post # None /\ "beforeSend" \notin DOMAIN config[1]) =>
               last.post[1].body.payload = last.built[1]
        /\ (last.post # None /\ "beforeSend" \in DOMAIN config[1]) =>
               last.post[1].body.payload = last.hook[1].ret.v

\* identify replaced both id and data and posted the new identity.
C10_Witness ==
    /\ last.op = "identify"
    /\ last.post # None
    /\ last.pre.sessionId = ""
    /\ last.pre.sessionData = Some(Premium)
    /\ {"id", "data"} \subseteq DOMAIN last.post[1].body.payload
    /\ last.post[1].body.payload.id = "user-12345"
    /\ last.post[1].body.payload.data = John

---------------------------------------------------------------------------
\* The data trackRevenue is to send: revenue and currency, and every key of
\* the additional data, whose value wins where the names collide.
RevenueData(a) ==
    LET extra == IF a.data = None THEN EmptyObject ELSE a.data[1]
    IN  [k \in {"revenue", "currency"} \cup DOMAIN extra |->
            IF k \in DOMAIN extra THEN extra[k]
            ELSE IF k = "revenue" THEN a.revenue ELSE a.currency]

\* The call passed the configuration and block checks with no beforeSend
\* configured and a non-empty baseUrl: what it built is what it posts.
PostsAsBuilt ==
    /\ config # None
    /\ HasBaseUrl(config[1])
    /\ "beforeSend" \notin DOMAIN config[1]
    /\ last.gate = "open"

\* C11: a trackRevenue call with a non-empty name that passes the checks
\* builds a payload whose name is the event name and whose data is exactly
\* {revenue, currency} extended with the additional data, a key of the
\* additional data named revenue or currency taking the place of the fixed
\* value; with no beforeSend that payload is the one posted.
C11_RevenueData ==
    (last.op = "trackRevenue" /\ last.args.name # "" /\ last.gate = "open") =>
        /\ last.built # None
        /\ last.built[1].name = last.args.name
        /\ last.built[1].data = RevenueData(last.args)
        /\ PostsAsBuilt =>
               /\ last.post # None
               /\ last.post[1].body.payload = last.built[1]

\* A revenue event is posted whose additional data names revenue and a key
\* of its own.
C11_Witness ==
    /\ last.op = "trackRevenue"
    /\ last.post # None
    /\ last.args.data # None
    /\ DOMAIN last.args.data[1] = {"productId", "revenue"}
    /\ "data" \in DOMAIN last.post[1].body.payload
    /\ DOMAIN last.post[1].body.payload.data = {"revenue", "currency", "productId"}
    /\ last.post[1].body.payload.data.revenue = 0
    /\ last.post[1].body.payload.data.currency = "EUR"

---------------------------------------------------------------------------
\* C12: a logEvent or trackRevenue call with an empty event name issues no
\* POST, whatever the configuration and the identity, builds nothing, invokes
\* nothing, resolves, and leaves configuration, identity and the requests in
\* flight as they were.
C12_EmptyNameIsInert ==
    [][(last'.op \in {"logEvent", "trackRevenue"} /\ last'.args.name = "") =>
           /\ last'.post = None
           /\ last'.built = None
           /\ last'.hook = <<>>
           /\ last'.outcome = "resolved"
           /\ UNCHANGED <<config, sessionId, sessionData, inflight>>]_vars

\* logEvent("") is called on an identified reporter that nothing blocks and
\* no beforeSend guards.
C12_Witness ==
    /\ last.op = "logEvent"
    /\ last.args.name = ""
    /\ config # None
    /\ HasBaseUrl(config[1])
    /\ "beforeSend" \notin DOMAIN config[1]
    /\ sessionId = "user-12345"
    /\ ~SignalsOptOut(last.env)

---------------------------------------------------------------------------
\* The override URL the call hands to buildBasePayload: only trackPageView
\* takes one.
OverrideOfCall ==
    IF last.op = "trackPageView" THEN last.args.overrideUrl ELSE Undefined

\* The call built a base payload whose url can be read: from the argument of
\* the track callback, or from the built payload unless the object passed to
\* track supplied a url of its own.
BaseUrlReadable ==
    /\ last.op \in TrackingOps
    /\ \/ last.cb # <<>>
       \/ /\ last.built # None
          /\ ~(last.op = "track" /\ last.args.kind = "object"
                  /\ "url" \in DOMAIN last.args.payload[1])

BaseUrl == IF last.cb # <<>> THEN last.cb[1].arg.url ELSE last.built[1].url

Excludes(option) ==
    config # None /\ option \in DOMAIN config[1] /\ config[1][option] = True

\* Path, then query string, then fragment, of the environment of the call.
\* Where window is undefined there is no ambient path, query or fragment.
ComposedUrl(Given(_)) ==
    LET e == last.env
        ambient == e.kind = "browser"
        path == IF Given(OverrideOfCall) THEN OverrideOfCall
                ELSE IF ambient THEN e.pathname ELSE ""
        query == IF ambient /\ ~Excludes("excludeSearch") THEN e.search ELSE ""
        fragment == IF ambient /\ ~Excludes("excludeHash") THEN e.hash ELSE ""
    IN  path \o query \o fragment

IsGiven(u) == u # Undefined
IsGivenNonEmpty(u) == u \notin {Undefined, ""}

\* C13, as claimed: the url of a base payload is the override verbatim
\* whenever one is given, else the ambient path, followed by the query
\* string unless excludeSearch is set, followed by the fragment unless
\* excludeHash is set.
C13_UrlFromAnyOverride ==
    BaseUrlReadable => BaseUrl = ComposedUrl(IsGiven)

\* C13, amended: an override that is the empty string counts as not given,
\* and the ambient path is used.
C13_UrlFromNonEmptyOverride ==
    BaseUrlReadable => BaseUrl = ComposedUrl(IsGivenNonEmpty)

\* A page view with an override is built on a page that has a query string
\* and a fragment, neither of them excluded.
C13_Witness ==
    /\ last.op = "trackPageView"
    /\ last.built # None
    /\ last.args.overrideUrl = "/custom-page"
    /\ last.built[1].url = "/custom-page?utm_source=google#section1"

---------------------------------------------------------------------------
\* What a step recorded of a call, and the identity it left, are those of
\* the call r.
SameCall(r) ==
    /\ last.gate = r.gate
    /\ last.built = r.built
    /\ last.cb = r.cb
    /\ last.hook = r.hook
    /\ last.post = r.post
    /\ last.outcome = r.outcome
    /\ sessionId = r.sessionId
    /\ sessionData = r.sessionData

\* C14: track called with no argument does what trackPageView called with no
\* argument does from the same configuration, identity and environment: the
\* same block decision, the same payload, the same invocation of beforeSend,
\* the same POST or none, the same outcome, the same identity afterwards.
C14_TrackAbsentIsPageView ==
    (last.op = "track" /\ last.args.kind = "absent") =>
        SameCall(TrackPageViewCall(config, last.pre.sessionId,
                                   last.pre.sessionData, last.env, Undefined))

\* track() posts a page view that carries session data.
C14_Witness ==
    /\ last.op = "track"
    /\ last.args.kind = "absent"
    /\ last.post # None
    /\ last.pre.sessionData = Some(Premium)
    /\ "data" \in DOMAIN last.built[1]
    /\ last.built[1].data = Premium

---------------------------------------------------------------------------
\* built holds every field of over with the value over gives it, every other
\* field of base with the value base gives it, and nothing else.
ShallowMerged(built, base, over) ==
    /\ DOMAIN built = DOMAIN base \cup DOMAIN over
    /\ \A k \in DOMAIN over : built[k] = over[k]
    /\ \A k \in DOMAIN base \ DOMAIN over : built[k] = base[k]

\* The object a track call merges over the base payload: its argument, or
\* what its callback returned (nothing when that is undefined).
TrackOverrides ==
    IF last.args.kind = "object" THEN last.args.payload[1]
    ELSE IF last.cb[1].ret.kind = "object" THEN last.cb[1].ret.v
    ELSE EmptyObject

\* C15: a track call with an object, or with a callback that returns, builds
\* the base payload shallow-merged with that object, or with what the
\* callback returned for the base payload: every field present in it has its
\* value, every field absent from it has the base value; with no beforeSend
\* that payload is the one posted.
C15_TrackShallowMerge ==
    (last.op = "track" /\ last.args.kind \in {"object", "callback"}
        /\ last.gate = "open" /\ ~CallbackThrew) =>
        LET base == BuildBasePayload(config, last.pre.sessionId, last.env, Undefined)
        IN  /\ last.built # None
            /\ last.args.kind = "callback" =>
                   (Len(last.cb) = 1 /\ last.cb[1].arg = base)
            /\ ShallowMerged(last.built[1], base, TrackOverrides)
            /\ PostsAsBuilt =>
                   /\ last.post # None
                   /\ last.post[1].body.payload = last.built[1]

\* track is given an object with a url and a title, and posts a payload with
\* those two and the hostname of the page.
C15_Witness ==
    /\ last.op = "track"
    /\ last.args.kind = "object"
    /\ last.post # None
    /\ DOMAIN last.args.payload[1] = {"url", "title"}
    /\ {"url", "title", "hostname"} \subseteq DOMAIN last.post[1].body.payload
    /\ last.post[1].body.payload.url = "/custom-page"
    /\ last.post[1].body.payload.title = "Custom Title"
    /\ last.post[1].body.payload.hostname = "localhost"

---------------------------------------------------------------------------
\* What track does with a name and the data d, from the configuration,
\* identity and environment in which the recorded call was made.
TrackNamedFromSameState(d) ==
    TrackCall(config, last.pre.sessionId, last.pre.sessionData, last.env,
              TrackName(last.args.name, d))

\* C16, as claimed: on a configured reporter, logEvent with a non-empty name
\* does what track does with the same name and data, data omitted included.
C16_LogEventIsTrack ==
    (last.op = "logEvent" /\ config # None /\ last.args.name # "") =>
        SameCall(TrackNamedFromSameState(last.args.data))

\* C16, amended: logEvent with its data omitted does what track does with
\* the same name and the data {}: it sends data: {}, where track with its
\* data omitted sends no data field.
C16_LogEventIsTrackWithDefaultData ==
    (last.op = "logEvent" /\ config # None /\ last.args.name # "") =>
        /\ SameCall(TrackNamedFromSameState(
                        IF last.args.data = None THEN Some(EmptyObject)
                        ELSE last.args.data))
        /\ (last.args.data = None /\ last.built # None) =>
               /\ "data" \in DOMAIN last.built[1]
               /\ last.built[1].data = EmptyObject
               /\ "data" \notin DOMAIN TrackNamedFromSameState(None).built[1]

\* logEvent is called with a name and no data, and posts.
C16_Witness ==
    /\ last.op = "logEvent"
    /\ last.args.name = "allowed-event"
    /\ last.args.data = None
    /\ last.post # None
    /\ "data" \in DOMAIN last.post[1].body.payload

---------------------------------------------------------------------------
\* The base payload of the call, where it can be read: the argument of the
\* track callback, else the built payload.  Its field k is the base value
\* unless the object passed to track supplied k.
BaseOfCall == IF last.cb # <<>> THEN last.cb[1].arg ELSE last.built[1]

BaseFieldReadable(k) ==
    /\ last.op \in TrackingOps
    /\ \/ last.cb # <<>>
       \/ /\ last.built # None
          /\ ~(last.op = "track" /\ last.args.kind = "object"
                  /\ k \in DOMAIN last.args.payload[1])

\* A tracking call shows no effect of a field the current configuration
\* omits: no POST without baseUrl, no tag, the ambient hostname, no domain
\* or do-not-track block, query string and fragment in the url, no
\* invocation of beforeSend and the payload posted as built.
OmittedFieldsHaveNoEffect ==
    (last.op \in TrackingOps /\ config # None) =>
        LET c == config[1]
            Omits(f) == f \notin DOMAIN c
        IN  /\ Omits("baseUrl") => last.post = None
            /\ (Omits("tag") /\ BaseFieldReadable("tag")) =>
                   "tag" \notin DOMAIN BaseOfCall
            /\ (Omits("hostName") /\ BaseFieldReadable("hostname")) =>
                   BaseOfCall.hostname = last.env.hostname
            /\ Omits("domains") => last.gate # "domain"
            /\ Omits("doNotTrack") => last.gate \notin {"doNotTrack", "throw"}
            /\ BaseFieldReadable("url") =>
                   BaseOfCall.url = ComposedUrl(IsGivenNonEmpty)
            /\ Omits("beforeSend") =>
                   /\ last.hook = <<>>
                   /\ last.post # None => last.post[1].body.payload = last.built[1]

\* C17: initialize(c2) leaves getConfig returning c2, with the fields of c2
\* and no other; the configuration then changes only by initialize, setTag,
\* clearTag and resetInstance; and no tracking call shows an effect of a
\* field the current configuration omits.
C17_InitializeReplaces ==
    [][/\ last'.op = "initialize" => GetConfig' = Some(last'.args.config)
       /\ last'.op \notin {"initialize", "setTag", "clearTag", "resetInstance"} =>
              config' = config
       /\ OmittedFieldsHaveNoEffect']_vars

\* A page view is not posted under a configuration without baseUrl, while a
\* POST dispatched under the configuration it replaced is still in flight.
C17_Witness ==
    /\ last.op = "trackPageView"
    /\ config = Some([websiteId |-> "test-id"])
    /\ inflight = 1
    /\ last.built # None
    /\ last.post = None

---------------------------------------------------------------------------
\* The configurations c and d have the same fields with the same values,
\* tag apart.
SameButTag(c, d) ==
    /\ DOMAIN c \ {"tag"} = DOMAIN d \ {"tag"}
    /\ \A k \in DOMAIN c \ {"tag"} : c[k] = d[k]

\* setTag(t) on a configured reporter stores t as config.tag and clearTag
\* stores undefined; both leave the other fields of the configuration, the
\* identity and the requests in flight as they were, and neither configures
\* an unconfigured reporter.
TagStepsFrame ==
    last'.op \in {"setTag", "clearTag"} =>
        /\ UNCHANGED <<sessionId, sessionData, inflight>>
        /\ config = None => config' = None
        /\ config # None =>
               /\ config' # None
               /\ SameButTag(config[1], config'[1])
               /\ "tag" \in DOMAIN config'[1]
               /\ config'[1].tag = IF last'.op = "setTag" THEN last'.args.tag
                                   ELSE Undefined

\* The tag the configuration holds: None when it has no tag field or the
\* field is undefined.
ConfiguredTag ==
    IF config # None /\ "tag" \in DOMAIN config[1] /\ config[1].tag # Undefined
    THEN Some(config[1].tag) ELSE None

TagOf(payload) == IF "tag" \in DOMAIN payload THEN Some(payload.tag) ELSE None

\* C18, as claimed: every built payload carries the tag the configuration
\* holds, and none when it holds none; setTag and clearTag change nothing
\* but the tag.
C18_EveryPayloadCarriesTag ==
    [][/\ TagStepsFrame
       /\ (last'.op \in TrackingOps /\ last'.built # None) =>
              TagOf(last'.built[1]) = ConfiguredTag']_vars

\* C18, amended: the base payload carries the configured tag when it is a
\* non-empty string (setTag("") stores "", and payloads then carry no tag);
\* a tag in the object passed to track, or returned by its callback, takes
\* its place in that payload, also when no tag is configured.
C18_BasePayloadCarriesNonEmptyTag ==
    [][/\ TagStepsFrame
       /\ (last'.op \in TrackingOps /\ last'.built # None) =>
              LET carried == IF ConfiguredTag' \notin {None, Some("")}
                             THEN ConfiguredTag' ELSE None
                  supplied == IF last'.op = "track"
                                    /\ last'.args.kind \in {"object", "callback"}
                              THEN TagOf(TrackOverrides') ELSE None
              IN  /\ TagOf(last'.built[1]) =
                         IF supplied # None THEN supplied ELSE carried
                  /\ last'.cb # <<>> => TagOf(last'.cb[1].arg) = carried]_vars

\* An event is built with the tag that setTag put in the place of the one
\* the configuration came with.
C18_Witness ==
    /\ last.op = "logEvent"
    /\ last.built # None
    /\ config # None
    /\ DOMAIN config[1] = {"baseUrl", "websiteId", "tag"}
    /\ config[1].tag = "summer"
    /\ TagOf(last.built[1]) = Some("summer")

---------------------------------------------------------------------------
\* The configuration lacks a required field: baseUrl or websiteId is absent
\* or empty.
LacksRequiredField(c) ==
    \E f \in {"baseUrl", "websiteId"} : f \notin DOMAIN c \/ c[f] = ""

\* C19: under a configuration that lacks a required field every tracking
\* call is a silent no-op: it issues no POST and raises no error (a track
\* callback that throws apart, which rejects under every configuration).
C19_MissingFieldIsNoOp ==
    (last.op \in TrackingOps /\ config # None /\ LacksRequiredField(config[1])) =>
        /\ last.post = None
        /\ last.outcome = "rejected" => CallbackThrew

\* What holds of the code: without a baseUrl nothing is posted and
\* beforeSend is not invoked; without a websiteId the payload is posted with
\* the website "".
C19_OnlyBaseUrlIsRequired ==
    (last.op \in TrackingOps /\ config # None /\ last.built # None) =>
        /\ ~HasBaseUrl(config[1]) => (last.post = None /\ last.hook = <<>>)
        /\ PostsAsBuilt => last.post # None
        /\ ("websiteId" \notin DOMAIN config[1] /\ BaseFieldReadable("website")) =>
               BaseOfCall.website = ""

---------------------------------------------------------------------------
\* The call is a page view: trackPageView, or track with no argument.
IsPageView ==
    last.op = "trackPageView" \/ (last.op = "track" /\ last.args.kind = "absent")

\* C20: the session data changes only by identify, clearIdentity and
\* resetInstance, and every payload a page view builds carries the session
\* data of the moment as its data field, and no data field when none is set;
\* with no beforeSend that payload is the one posted.
C20_PageViewCarriesSessionData ==
    /\ last.op \notin {"identify", "clearIdentity", "resetInstance"} =>
           sessionData = last.pre.sessionData
    /\ (IsPageView /\ last.built # None) =>
           /\ sessionData # None =>
                  /\ "data" \in DOMAIN last.built[1]
                  /\ last.built[1].data = sessionData[1]
           /\ sessionData = None => "data" \notin DOMAIN last.built[1]
           /\ PostsAsBuilt =>
                  /\ last.post # None
                  /\ last.post[1].body.payload = last.built[1]

\* A page view posted after identify("user-12345", John) carries John's data
\* and the id.
C20_Witness ==
    /\ last.op = "trackPageView"
    /\ last.post # None
    /\ last.pre.sessionData = Some(John)
    /\ {"data", "id"} \subseteq DOMAIN last.post[1].body.payload
    /\ last.post[1].body.payload.data = John
    /\ last.post[1].body.payload.id = "user-12345"

---------------------------------------------------------------------------
\* C21: a call to initialize dispatches a page-view POST of its own, the
\* caller not having called trackPageView.
C21_InitializeSendsPageView ==
    last.op = "initialize" =>
        /\ last.post # None
        /\ last.built # None

\* What holds of the code: a POST is dispatched only by a step that is a
\* call of a tracking method, and initialize builds and dispatches nothing.
C21_OnlyTrackingCallsPost ==
    [][/\ inflight' > inflight => last'.op \in TrackingOps
       /\ last'.op \notin TrackingOps =>
              (last'.post = None /\ last'.built = None /\ last'.hook = <<>>)]_vars

---------------------------------------------------------------------------
IdOf(payload) == IF "id" \in DOMAIN payload THEN Some(payload.id) ELSE None

\* The operations that may run between the dispatch of a POST and its
\* settling.
InterleavedOps ==
    {"initialize", "setTag", "clearTag", "clearIdentity", "resetInstance",
     "navigate"}

\* C22: a tracking step dispatches its POST in the step that reads the
\* state: endpoint, envelope, tag and id are those of the configuration and
\* identity in which the call was made (for identify, of the identity it
\* sets), and the call leaves the configuration alone.  Operations
\* interleaved with a request in flight leave it in flight, and its settling
\* resolves the call and changes neither configuration nor identity.
C22_DispatchFromCallTimeState ==
    [][/\ (last'.op \in TrackingOps /\ last'.post # None) =>
              LET sid == IF last'.op = "identify" /\ last'.args.id # Undefined
                         THEN last'.args.id ELSE sessionId
              IN  /\ config # None
                  /\ config' = config
                  /\ last'.pre = [sessionId |-> sessionId,
                                  sessionData |-> sessionData]
                  /\ last'.env = env
                  /\ last'.post[1].url = config[1].baseUrl \o "/api/send"
                  /\ last'.post[1].body.payload =
                         IF "beforeSend" \in DOMAIN config[1]
                         THEN last'.hook[1].ret.v ELSE last'.built[1]
                  /\ BaseFieldReadable("tag")' =>
                         TagOf(BaseOfCall') =
                             IF ConfiguredTag \notin {None, Some("")}
                             THEN ConfiguredTag ELSE None
                  /\ BaseFieldReadable("id")' =>
                         IdOf(BaseOfCall') =
                             IF sid \notin {Undefined, ""} THEN Some(sid) ELSE None
       /\ last'.op \in InterleavedOps => inflight' = inflight
       /\ last'.op \in TrackingOps => inflight' >= inflight
       /\ last'.op = "settle" =>
              /\ last'.outcome = "resolved"
              /\ inflight' = inflight - 1
              /\ UNCHANGED <<config, sessionId, sessionData>>]_vars

\* A POST dispatched under a configuration settles after resetInstance, and
\* its call resolves with the response.
C22_Witness ==
    /\ last.op = "settle"
    /\ config = None
    /\ last.value = Some([sessionId |-> "session-123", visitId |-> "visit-456"])

---------------------------------------------------------------------------
\* C23: a step puts at most one POST in flight, and only a call of a
\* tracking method puts one; its request is {url, body} with the url
\* "<baseUrl>/api/send" and the body {payload, type: "event"}; the settling
\* of a POST, failed or not, takes it out of flight and dispatches nothing,
\* and no other operation dispatches or re-sends anything.
C23_OnePostNoRetry ==
    [][/\ inflight' <= inflight + 1
       /\ inflight' = inflight + 1 <=>
              (last'.op \in TrackingOps /\ last'.post # None)
       /\ last'.post # None =>
              /\ Len(last'.post) = 1
              /\ DOMAIN last'.post[1] = {"url", "body"}
              /\ last'.post[1].url = config[1].baseUrl \o "/api/send"
              /\ DOMAIN last'.post[1].body = {"payload", "type"}
              /\ last'.post[1].body.type = "event"
              /\ Len(last'.hook) <= 1
       /\ last'.op = "settle" =>
              /\ inflight' = inflight - 1
              /\ last'.post = None
              /\ last'.transport = "error" =>
                     (last'.value = None /\ last'.logged)
       /\ last'.op \notin TrackingOps \cup {"settle"} =>
              (inflight' = inflight /\ last'.post = None)]_vars

\* A POST has failed, and nothing is in flight.
C23_Witness ==
    /\ last.op = "settle"
    /\ last.transport = "error"
    /\ last.logged
    /\ inflight = 0
    /\ config # None

---------------------------------------------------------------------------
\* Tracking is blocked for the call: no configuration is set, or the
\* configuration honours do-not-track and the environment signals opt-out,
\* or the domains list excludes the ambient hostname.
TrackingBlocked ==
    \/ config = None
    \/ HonoursDoNotTrack(config[1]) /\ SignalsOptOut(last.env)
    \/ DomainExcluded(config[1], last.env)

\* C24: an identify call made while tracking is blocked issues no POST,
\* builds nothing, invokes nothing, resolves, and leaves the session id and
\* the session data as they were.
C24_BlockedIdentifyIsInert ==
    (last.op = "identify" /\ TrackingBlocked) =>
        /\ last.post = None
        /\ last.built = None
        /\ last.hook = <<>>
        /\ last.outcome = "resolved"
        /\ sessionId = last.pre.sessionId
        /\ sessionData = last.pre.sessionData

\* identify("user-12345", John) is stopped by the domains list on a reporter
\* that holds other session data and no id.
C24_Witness ==
    /\ last.op = "identify"
    /\ last.gate = "domain"
    /\ last.args.id = "user-12345"
    /\ last.args.data = Some(John)
    /\ sessionId = Undefined
    /\ sessionData = Some(Premium)

---------------------------------------------------------------------------
\* The identify call passed the block check and its send was cancelled: by
\* an empty or absent baseUrl, or by a beforeSend that returned a falsy value
\* or threw.
IdentifyCancelled ==
    /\ last.op = "identify"
    /\ last.gate = "open"
    /\ last.post = None

\* C25: an identify call that passes the block check and whose send is
\* cancelled (only an empty baseUrl or beforeSend cancels it) has updated the
\* session id and the session data as its arguments say; and the base
\* payload of every tracking call carries the session id of the moment,
\* transmitted by an identify call or not.
C25_CancelledIdentifyUpdates ==
    /\ IdentifyCancelled =>
           /\ \/ ~HasBaseUrl(config[1])
              \/ /\ "beforeSend" \in DOMAIN config[1]
                 /\ Len(last.hook) = 1
                 /\ last.hook[1].ret.kind \in {"falsy", "throw"}
           /\ sessionId = IF last.args.id # Undefined THEN last.args.id
                          ELSE last.pre.sessionId
           /\ sessionData = IF last.args.id # Undefined /\ last.args.data # None
                            THEN last.args.data
                            ELSE IF last.args.id = Undefined
                                    /\ last.args.idData # None
                            THEN last.args.idData
                            ELSE last.pre.sessionData
    /\ (last.op # "identify" /\ BaseFieldReadable("id")) =>
           IdOf(BaseOfCall) = IF last.pre.sessionId \notin {Undefined, ""}
                              THEN Some(last.pre.sessionId) ELSE None

\* beforeSend returned a falsy value for identify("user-12345", John) on a
\* reporter without identity, which now holds that id and data.
C25_Witness ==
    /\ IdentifyCancelled
    /\ Len(last.hook) = 1
    /\ last.hook[1].ret.kind = "falsy"
    /\ last.pre.sessionId = Undefined
    /\ last.pre.sessionData = None
    /\ sessionId = "user-12345"
    /\ sessionData = Some(John)

---------------------------------------------------------------------------
\* The configuration overrides the hostname and restricts the domains.
OverridesHostname ==
    /\ config # None
    /\ "hostName" \in DOMAIN config[1]
    /\ config[1].hostName # ""
    /\ "domains" \in DOMAIN config[1]
    /\ config[1].domains # <<>>

HostNameListed ==
    \E i \in DOMAIN config[1].domains : config[1].domains[i] = config[1].hostName

\* C26: under a configuration with a hostName override and a non-empty
\* domains list, a tracking call that do-not-track does not stop is stopped
\* by the domain check exactly when the ambient hostname is not on the list,
\* whether the override is on it or not; and the base payload of a call that
\* passes carries the override as hostname.
C26_DomainCheckIgnoresOverride ==
    (last.op \in TrackingOps /\ OverridesHostname) =>
        /\ last.gate \in {"domain", "open"} =>
               (last.gate = "domain" <=> DomainExcluded(config[1], last.env))
        /\ last.gate = "domain" => last.post = None
        /\ (last.gate = "open" /\ BaseFieldReadable("hostname")) =>
               BaseOfCall.hostname = config[1].hostName

\* A call from a listed page is posted with an override as hostname that is
\* not on the list.
C26_Witness ==
    /\ last.op \in TrackingOps
    /\ OverridesHostname
    /\ ~HostNameListed
    /\ ~DomainExcluded(config[1], last.env)
    /\ last.post # None
    /\ last.post[1].body.payload.hostname = config[1].hostName

\* A call from an unlisted page is stopped although the override is listed.
C26_BlockedDespiteListedOverride ==
    /\ last.op \in TrackingOps
    /\ OverridesHostname
    /\ HostNameListed
    /\ DomainExcluded(config[1], last.env)
    /\ last.gate = "domain"
    /\ last.post = None

---------------------------------------------------------------------------
\* C27: initialize leaves the session id and the session data as they were,
\* and getSessionId and getSessionData return them afterwards; the identity
\* changes only by identify, clearIdentity and resetInstance, the last two
\* of which clear it; and a tracking call other than identify attaches the
\* identity it finds to its payload, the id to the base payload and the
\* session data to a page view, under whatever configuration it runs.
C27_InitializeKeepsIdentity ==
    [][/\ last'.op = "initialize" =>
              /\ GetSessionId' = sessionId
              /\ GetSessionData' = sessionData
              /\ last'.pre = [sessionId |-> sessionId,
                              sessionData |-> sessionData]
       /\ last'.op \notin {"identify", "clearIdentity", "resetInstance"} =>
              UNCHANGED <<sessionId, sessionData>>
       /\ last'.op \in {"clearIdentity", "resetInstance"} =>
              (GetSessionId' = Undefined /\ GetSessionData' = None)
       /\ (last'.op # "identify" /\ BaseFieldReadable("id")') =>
              IdOf(BaseOfCall') = IF sessionId \notin {Undefined, ""}
                                  THEN Some(sessionId) ELSE None
       /\ (IsPageView' /\ last'.built # None /\ sessionData # None) =>
              /\ "data" \in DOMAIN last'.built[1]
              /\ last'.built[1].data = sessionData[1]]_vars

\* A reporter identified as "user-12345" with John's data has been
\* initialized again, with a configuration that carries a tag.
C27_Witness ==
    /\ last.op = "initialize"
    /\ last.pre.sessionId = "user-12345"
    /\ last.pre.sessionData = Some(John)
    /\ last.args.config = Spread(BaseConfig, [tag |-> "campaign"])
    /\ GetSessionId = "user-12345"
    /\ GetSessionData = Some(John)

====
